---- MODULE Spec2Model ----
(***************************************************************************)
(* The CCA-secure Kyber KEM layer of src/api.rs: crypto_kem_keypair,       *)
(* crypto_kem_enc and crypto_kem_dec over caller-owned byte buffers.       *)
(*                                                                         *)
(* Byte buffers are sequences of symbolic bytes.  A symbolic byte is       *)
(* <<term, i>>: byte i of the value term, and a term is <<tag, args>> with *)
(* args the sequence of bytes the value was computed from.  Two byte       *)
(* strings are equal exactly when they were computed the same way from    *)
(* equal inputs: the hash functions, the KDF and the IND-CPA encryption    *)
(* are collision-free, as the contracts of the primitives assume.          *)
(* Rust's buf[a..b] is Slice(buf, a, b); offsets are 0-based as in the     *)
(* source.                                                                 *)
(***************************************************************************)
EXTENDS Integers, Sequences, FiniteSets, TLC

VARIABLES
  params,   \* the parameter set the crate was built with (params.rs)
  pk,       \* the caller's public-key buffer
  sk,       \* the caller's secret-key buffer
  ct,       \* the sender's ciphertext buffer
  ss,       \* the sender's shared-secret buffer
  enc,      \* the inputs of the call that last wrote ct and ss
  key,      \* what crypto_kem_keypair has written to pk and sk so far
  rng,      \* the randomness source: the number of draws it has served
  last      \* the most recent API call: inputs, status, and dec's run

vars == <<params, pk, sk, ct, ss, enc, key, rng, last>>

----------------------------------------------------------------------------
(* Bounds of the model *)

MaxIndcpaSk == 2
MaxIndcpaPk == 2
MaxSym == 2
MaxCt == 2
MaxSs == 2
MaxRng == 2

----------------------------------------------------------------------------
(* Parameter sets: the byte lengths of params.rs, scaled down.  ParamSets   *)
(* varies one size at a time, the others staying at one byte; KeyParamSets *)
(* takes every combination of the three sizes the secret key is laid out   *)
(* by.                                                                     *)

ParamSets ==
  { p \in [isk : 1..MaxIndcpaSk, ipk : 1..MaxIndcpaPk, sym : 1..MaxSym,
           ctb : 1..MaxCt, ssb : 1..MaxSs] :
      Cardinality({f \in {"isk", "ipk", "sym", "ctb", "ssb"} : p[f] > 1}) <= 1 }

KeyParamSets ==
  { p \in [isk : 1..MaxIndcpaSk, ipk : 1..MaxIndcpaPk, sym : 1..MaxSym,
           ctb : {1}, ssb : {1}] : TRUE }

KYBER_SYMBYTES == params.sym
KYBER_INDCPA_SECRETKEYBYTES == params.isk
KYBER_INDCPA_PUBLICKEYBYTES == params.ipk
KYBER_CIPHERTEXTBYTES == params.ctb
KYBER_SSBYTES == params.ssb
KYBER_PUBLICKEYBYTES == KYBER_INDCPA_PUBLICKEYBYTES
KYBER_SECRETKEYBYTES ==
  KYBER_INDCPA_SECRETKEYBYTES + KYBER_INDCPA_PUBLICKEYBYTES + 2 * KYBER_SYMBYTES

----------------------------------------------------------------------------
(* Symbolic bytes and buffers *)

Atom(name) == <<name, <<>>>>
Bytes(term, n) == [i \in 1..n |-> <<term, i>>]

\* [0u8; n]
Zeros(n) == [i \in 1..n |-> <<Atom("zero"), 0>>]
\* the contents of the caller-allocated output buffer `name` before any call
Old(name, n) == Bytes(Atom(name), n)
\* a named 32-byte seed supplied by the caller
SeedBytes(name) == Bytes(Atom(name), KYBER_SYMBYTES)
\* the bytes served by draw number k of the randomness source
RngBytes(k, n) == [i \in 1..n |-> <<Atom("rng"), k * n + i>>]

\* buf[from..to]
Slice(buf, from, to) == SubSeq(buf, from + 1, to)
\* buf[off..off+Len(cells)].copy_from_slice(cells)
WriteAt(buf, off, cells) ==
  [i \in 1..Len(buf) |->
     IF off < i /\ i <= off + Len(cells) THEN cells[i - off] ELSE buf[i]]

----------------------------------------------------------------------------
(* The primitives api.rs calls, by their contracts *)

\* hash_h(out, input, inlen): the KYBER_SYMBYTES bytes written to out[0..]
hash_h(input, inlen) == Bytes(<<"H", Slice(input, 0, inlen)>>, KYBER_SYMBYTES)

\* hash_g(out, input, inlen): the 2*KYBER_SYMBYTES bytes written to out[0..]
hash_g(input, inlen) == Bytes(<<"G", Slice(input, 0, inlen)>>, 2 * KYBER_SYMBYTES)

\* kdf(out, input, inlen): the KYBER_SSBYTES bytes written to out[0..]
kdf(input, inlen) == Bytes(<<"KDF", Slice(input, 0, inlen)>>, KYBER_SSBYTES)

\* randombytes(x, len, rng): fills x[0..len] and advances the source, or
\* fails and leaves x as it was
randombytes(x, len, r, fails) ==
  IF fails
  THEN [res |-> "RandomBytesGeneration", x |-> x, rng |-> r]
  ELSE [res |-> "Ok", x |-> WriteAt(x, 0, RngBytes(r, len)), rng |-> r + 1]

\* The IND-CPA key pair derived from the key-generation seed d
CpaPublic(d) == Bytes(<<"CpaPk", d>>, KYBER_INDCPA_PUBLICKEYBYTES)
CpaSecret(d) == Bytes(<<"CpaSk", d>>, KYBER_INDCPA_SECRETKEYBYTES)

\* indcpa_keypair(pk, sk, seed, rng): takes its seed from seed.0 or from the
\* randomness source; on a failure of the source nothing is written
indcpa_keypair(pkbuf, skbuf, seed, r, fails) ==
  LET d == IF seed = <<>>
           THEN randombytes(Zeros(2 * KYBER_SYMBYTES), KYBER_SYMBYTES, r, fails)
           ELSE [res |-> "Ok",
                 x |-> WriteAt(Zeros(2 * KYBER_SYMBYTES), 0, SeedBytes(seed[1])),
                 rng |-> r]
      dseed == Slice(d.x, 0, KYBER_SYMBYTES)
  IN IF d.res # "Ok"
     THEN [res |-> d.res, pk |-> pkbuf, sk |-> skbuf, rng |-> d.rng]
     ELSE [res |-> "Ok",
           pk |-> WriteAt(pkbuf, 0, CpaPublic(dseed)),
           sk |-> WriteAt(skbuf, 0, CpaSecret(dseed)),
           rng |-> d.rng]

\* indcpa_enc(c, m, pk, coins): deterministic in the message m[0..SYMBYTES],
\* the public key pk[0..INDCPA_PUBLICKEYBYTES] and the coins
indcpa_enc(m, pkbuf, coins) ==
  Bytes(<<"Enc", Slice(m, 0, KYBER_SYMBYTES)
                 \o Slice(pkbuf, 0, KYBER_INDCPA_PUBLICKEYBYTES)
                 \o Slice(coins, 0, KYBER_SYMBYTES)>>,
        KYBER_CIPHERTEXTBYTES)

\* A ciphertext with bit flipped in byte j (0-based).  A "flipLo" flip is
\* within the decryption's noise tolerance, a "flipHi" flip is not.
Flip(c, j, kind) == [c EXCEPT ![j + 1] = <<<<kind, <<c[j + 1]>>>>, 0>>]
Denoise(c) ==
  [i \in 1..Len(c) |-> IF c[i][1][1] = "flipLo" THEN c[i][1][2][1] ELSE c[i]]

\* indcpa_dec(m, c, sk): the message written to m[0..SYMBYTES].  It is the
\* encrypted message when c is (up to tolerated noise) an encryption under
\* the public key that belongs to sk[0..INDCPA_SECRETKEYBYTES], and some
\* other value determined by c and sk otherwise.
indcpa_dec(c, skbuf) ==
  LET cc == Denoise(Slice(c, 0, KYBER_CIPHERTEXTBYTES))
      s == Slice(skbuf, 0, KYBER_INDCPA_SECRETKEYBYTES)
      t == cc[1][1]
      a == t[2]
      m == Slice(a, 0, KYBER_SYMBYTES)
      p == Slice(a, KYBER_SYMBYTES, KYBER_SYMBYTES + KYBER_INDCPA_PUBLICKEYBYTES)
      d == s[1][1][2]
  IN IF /\ t[1] = "Enc"
        /\ cc = Bytes(t, KYBER_CIPHERTEXTBYTES)
        /\ s[1][1][1] = "CpaSk"
        /\ s = CpaSecret(d)
        /\ p = CpaPublic(d)
     THEN m
     ELSE Bytes(<<"Dec", Slice(c, 0, KYBER_CIPHERTEXTBYTES) \o s>>, KYBER_SYMBYTES)

\* verify(a, b, len): 0 when a[0..len] = b[0..len], 1 otherwise
verify(a, b, len) == IF Slice(a, 0, len) = Slice(b, 0, len) THEN 0 ELSE 1

\* cmov(r, x, len, b): r[0..len] = x[0..len] when b = 1, r unchanged when b = 0
cmov(r, x, len, b) == IF b = 0 THEN r ELSE WriteAt(r, 0, Slice(x, 0, len))

----------------------------------------------------------------------------
(* crypto_kem_keypair, api.rs lines 18-41 *)

\* PK_START with one KYBER_SYMBYTES subtracted instead of two
PK_START_OneUnit == KYBER_SECRETKEYBYTES - KYBER_SYMBYTES

\* const PK_START, the offset of H(pk) in sk
PK_START == KYBER_SECRETKEYBYTES - (2 * KYBER_SYMBYTES)
\* const SK_START, the offset of z in sk
SK_START == KYBER_SECRETKEYBYTES - KYBER_SYMBYTES

\* KeypairZ drawing z from the randomness source in seeded mode too
KeypairZ_AlwaysDrawn(skbuf, seed, r, fails) ==
  LET z == randombytes(Slice(skbuf, SK_START, Len(skbuf)), KYBER_SYMBYTES, r, fails)
  IN [res |-> z.res, sk |-> WriteAt(skbuf, SK_START, z.x), rng |-> z.rng]

\* match seed { None => randombytes(&mut sk[SK_START..], ..), Some(s) => .. }:
\* the status, the secret key and the randomness source after z is written
KeypairZ(skbuf, seed, r, fails) ==
  IF seed = <<>>
  THEN LET z == randombytes(Slice(skbuf, SK_START, Len(skbuf)), KYBER_SYMBYTES, r, fails)
       IN [res |-> z.res, sk |-> WriteAt(skbuf, SK_START, z.x), rng |-> z.rng]
  ELSE [res |-> "Ok", sk |-> WriteAt(skbuf, SK_START, SeedBytes(seed[2])), rng |-> r]

\* The whole call.  seed is <<>> (None) or <<s0, s1>> (Some); failAt names the
\* draw of the randomness source that fails: "indcpa", "z" or "none".
crypto_kem_keypair(pkbuf, skbuf, r, seed, failAt) ==
  LET k == indcpa_keypair(pkbuf, skbuf, seed, r, failAt = "indcpa")
  IN IF k.res # "Ok"
     THEN [res |-> k.res, pk |-> k.pk, sk |-> k.sk, rng |-> k.rng]
     ELSE LET sk1 == WriteAt(k.sk, KYBER_INDCPA_SECRETKEYBYTES,
                             Slice(k.pk, 0, KYBER_INDCPA_PUBLICKEYBYTES))
              sk2 == WriteAt(sk1, PK_START, hash_h(k.pk, KYBER_PUBLICKEYBYTES))
              z == KeypairZ(sk2, seed, k.rng, failAt = "z")
          IN [res |-> z.res, pk |-> k.pk, sk |-> z.sk, rng |-> z.rng]

----------------------------------------------------------------------------
(* crypto_kem_enc, api.rs lines 52-88 *)

\* EncRandbuf leaving the supplied seed out of randbuf
EncRandbuf_SeedDropped(seed, r, fails) ==
  IF seed = <<>>
  THEN randombytes(Zeros(2 * KYBER_SYMBYTES), KYBER_SYMBYTES, r, fails)
  ELSE [res |-> "Ok", x |-> Zeros(2 * KYBER_SYMBYTES), rng |-> r]

\* let res = match seed { None => randombytes(&mut randbuf, ..), Some(s) => .. }
EncRandbuf(seed, r, fails) ==
  IF seed = <<>>
  THEN randombytes(Zeros(2 * KYBER_SYMBYTES), KYBER_SYMBYTES, r, fails)
  ELSE [res |-> "Ok",
        x |-> WriteAt(Zeros(2 * KYBER_SYMBYTES), 0, SeedBytes(seed[1])),
        rng |-> r]

\* EncMessage using the raw seed as the message
EncMessage_Raw(randbuf) == Slice(randbuf, 0, KYBER_SYMBYTES)

\* hash_h(&mut buf, &randbuf, KYBER_SYMBYTES)
EncMessage(randbuf) == hash_h(randbuf, KYBER_SYMBYTES)

\* &kr[KYBER_SYMBYTES..], the coins handed to indcpa_enc
EncCoins(kr) == Slice(kr, KYBER_SYMBYTES, Len(kr))

\* The whole call.  seed is <<>> (None) or <<m>> (Some).
crypto_kem_enc(ctbuf, ssbuf, pkbuf, r, seed, fails) ==
  LET res == EncRandbuf(seed, r, fails)
      buf1 == WriteAt(Zeros(2 * KYBER_SYMBYTES), 0, EncMessage(res.x))
      buf2 == WriteAt(buf1, KYBER_SYMBYTES, hash_h(pkbuf, KYBER_PUBLICKEYBYTES))
      kr1 == WriteAt(Zeros(2 * KYBER_SYMBYTES), 0, hash_g(buf2, 2 * KYBER_SYMBYTES))
      ct1 == WriteAt(ctbuf, 0, indcpa_enc(buf2, pkbuf, EncCoins(kr1)))
      kr2 == WriteAt(kr1, KYBER_SYMBYTES, hash_h(ct1, KYBER_CIPHERTEXTBYTES))
      ss1 == WriteAt(ssbuf, 0, kdf(kr2, 2 * KYBER_SYMBYTES))
  IN [res |-> res.res, ct |-> ct1, ss |-> ss1, rng |-> res.rng]

----------------------------------------------------------------------------
(* crypto_kem_dec, api.rs lines 101-130 *)

\* DecProgram with kr[L:2L] overwritten before the re-encryption reads it
DecProgram_HashFirst ==
  <<"copy_pk", "indcpa_dec", "copy_hpk", "hash_g", "hash_h", "indcpa_enc",
    "verify", "cmov", "kdf", "return">>

\* The statements of the function body in source order
DecProgram ==
  <<"copy_pk", "indcpa_dec", "copy_hpk", "hash_g", "indcpa_enc",
    "verify", "hash_h", "cmov", "kdf", "return">>

\* The locals of a call at entry: the arguments and the zeroed arrays
DecEntry(ssbuf, c, skbuf) ==
  [ct |-> c, sk |-> skbuf, ss |-> ssbuf,
   buf |-> Zeros(2 * KYBER_SYMBYTES),
   kr |-> Zeros(2 * KYBER_SYMBYTES),
   cmp |-> Zeros(KYBER_CIPHERTEXTBYTES),
   pk |-> Zeros(KYBER_INDCPA_PUBLICKEYBYTES + 2 * KYBER_SYMBYTES),
   fail |-> 0, res |-> "running", pc |-> 1, trace |-> <<>>]

\* DecCoins taking the first half of kr
DecCoins_FirstHalf(kr) == Slice(kr, 0, KYBER_SYMBYTES)

\* &kr[KYBER_SYMBYTES..], the coins handed to the re-encryption
DecCoins(kr) == Slice(kr, KYBER_SYMBYTES, Len(kr))

\* DecVerify comparing the re-encryption with itself
DecVerify_Self(st) == verify(st.cmp, st.cmp, KYBER_CIPHERTEXTBYTES)

\* let fail = verify(ct, &cmp, KYBER_CIPHERTEXTBYTES)
DecVerify(st) == verify(st.ct, st.cmp, KYBER_CIPHERTEXTBYTES)

\* DecRejectionSeed reading the cached H(pk) instead of z
DecRejectionSeed_Hpk(skbuf) ==
  Slice(skbuf, KYBER_SECRETKEYBYTES - 2 * KYBER_SYMBYTES,
        KYBER_SECRETKEYBYTES - KYBER_SYMBYTES)

\* &sk[KYBER_SECRETKEYBYTES-KYBER_SYMBYTES..], the z handed to cmov
DecRejectionSeed(skbuf) ==
  Slice(skbuf, KYBER_SECRETKEYBYTES - KYBER_SYMBYTES, Len(skbuf))

\* One entry of the run's record: the statement, the lengths it was called
\* with, and kr as the statement left it
Logged(st, op, lens) ==
  [st EXCEPT !.trace = Append(@, [op |-> op, lens |-> lens, kr |-> st.kr])]

\* The effect of the statement at st.pc on the locals
DecExec(st) ==
  LET op == DecProgram[st.pc]
      L == KYBER_SYMBYTES
  IN CASE op = "copy_pk" ->
            Logged([st EXCEPT !.pk = Slice(st.sk, KYBER_INDCPA_SECRETKEYBYTES, Len(st.sk))],
                   op, <<Len(st.pk), Len(st.sk) - KYBER_INDCPA_SECRETKEYBYTES>>)
       [] op = "indcpa_dec" ->
            Logged([st EXCEPT !.buf = WriteAt(@, 0, indcpa_dec(st.ct, st.sk))],
                   op, <<Len(st.buf), Len(st.ct), Len(st.sk)>>)
       [] op = "copy_hpk" ->
            Logged([st EXCEPT !.buf =
                      WriteAt(@, L, Slice(st.sk, KYBER_SECRETKEYBYTES - 2 * L,
                                          KYBER_SECRETKEYBYTES - L))],
                   op, <<L>>)
       [] op = "hash_g" ->
            Logged([st EXCEPT !.kr = WriteAt(@, 0, hash_g(st.buf, 2 * L))],
                   op, <<Len(st.kr), Len(st.buf), 2 * L>>)
       [] op = "indcpa_enc" ->
            Logged([st EXCEPT !.cmp = WriteAt(@, 0, indcpa_enc(st.buf, st.pk, DecCoins(st.kr)))],
                   op, <<Len(st.cmp), Len(st.buf), Len(st.pk), Len(DecCoins(st.kr))>>)
       [] op = "verify" ->
            Logged([st EXCEPT !.fail = DecVerify(st)],
                   op, <<Len(st.ct), Len(st.cmp), KYBER_CIPHERTEXTBYTES>>)
       [] op = "hash_h" ->
            Logged([st EXCEPT !.kr = WriteAt(@, L, hash_h(st.ct, KYBER_CIPHERTEXTBYTES))],
                   op, <<Len(st.kr) - L, Len(st.ct), KYBER_CIPHERTEXTBYTES>>)
       [] op = "cmov" ->
            Logged([st EXCEPT !.kr = cmov(@, DecRejectionSeed(st.sk), L, st.fail)],
                   op, <<Len(st.kr), Len(DecRejectionSeed(st.sk)), L>>)
       [] op = "kdf" ->
            Logged([st EXCEPT !.ss = WriteAt(@, 0, kdf(st.kr, 2 * L))],
                   op, <<Len(st.ss), Len(st.kr), 2 * L>>)
       [] op = "return" ->
            [st EXCEPT !.res = IF st.fail = 0 THEN "Ok" ELSE "DecodeFail"]

\* DecNextPc returning as soon as the comparison fails
DecNextPc_EarlyReturn(st) ==
  IF DecProgram[st.pc] = "verify" /\ st.fail # 0 THEN Len(DecProgram) ELSE st.pc + 1

\* Where control goes after the statement at st.pc: the body is straight-line
\* code, the only branch being the final match on fail
DecNextPc(st) == st.pc + 1

RECURSIVE DecRunFrom(_)
DecRunFrom(st) ==
  IF st.pc > Len(DecProgram)
  THEN st
  ELSE LET s1 == DecExec(st) IN DecRunFrom([s1 EXCEPT !.pc = DecNextPc(s1)])

\* The whole call: the locals as the function returns
crypto_kem_dec(ssbuf, c, skbuf) == DecRunFrom(DecEntry(ssbuf, c, skbuf))

----------------------------------------------------------------------------
(* The callers: a key owner that generates key pairs and decapsulates, and *)
(* a sender that encapsulates to the owner's current public key.  Calls    *)
(* are synchronous, one at a time.                                         *)

\* The seed pairs and message seeds the deterministic (KAT) mode is called with
KeypairSeeds == {<<"d1", "z1">>, <<"d1", "z2">>}
EncSeeds == {<<"m1">>, <<"m2">>}

\* The ciphertexts handed to crypto_kem_dec: the one sent, or the one sent
\* with a bit flipped in one byte
Tampers == {<<>>} \cup {<<j, kind>> : j \in 0..(KYBER_CIPHERTEXTBYTES - 1),
                                     kind \in {"flipLo", "flipHi"}}
Received(c, t) == IF t = <<>> THEN c ELSE Flip(c, t[1], t[2])

\* The run of crypto_kem_dec recorded when the last call was another one
NoRun == [DecEntry(<<>>, <<>>, <<>>) EXCEPT !.pc = 0, !.res = "none"]

Start ==
  /\ pk = Old("pk0", KYBER_PUBLICKEYBYTES)
  /\ sk = Old("sk0", KYBER_SECRETKEYBYTES)
  /\ ct = Old("ct0", KYBER_CIPHERTEXTBYTES)
  /\ ss = Old("ss0", KYBER_SSBYTES)
  /\ enc = [done |-> FALSE, seed |-> <<>>, pk |-> <<>>]
  /\ key = "none"
  /\ rng = 0
  /\ last = [op |-> "none", res |-> "none", seed |-> <<>>, failAt |-> "none",
             tamper |-> <<>>, run |-> NoRun]

Init == params \in ParamSets /\ Start

Keypair ==
  \E seed \in KeypairSeeds \cup {<<>>}, failAt \in {"none", "indcpa", "z"} :
    LET r == crypto_kem_keypair(pk, sk, rng, seed, failAt)
    IN /\ seed # <<>> => failAt = "none"
       /\ r.rng <= MaxRng
       /\ pk' = r.pk
       /\ sk' = r.sk
       /\ rng' = r.rng
       /\ key' = IF failAt = "indcpa" THEN key
                 ELSE IF failAt = "z" THEN "cpa" ELSE "full"
       /\ last' = [op |-> "keypair", res |-> r.res, seed |-> seed,
                   failAt |-> failAt, tamper |-> <<>>, run |-> NoRun]
       /\ UNCHANGED <<params, ct, ss, enc>>

Enc ==
  \E seed \in EncSeeds \cup {<<>>}, fails \in BOOLEAN :
    LET r == crypto_kem_enc(ct, ss, pk, rng, seed, fails)
    IN /\ seed # <<>> => ~fails
       /\ r.rng <= MaxRng
       /\ ct' = r.ct
       /\ ss' = r.ss
       /\ rng' = r.rng
       /\ enc' = [done |-> TRUE, seed |-> seed, pk |-> pk]
       /\ last' = [op |-> "enc", res |-> r.res, seed |-> seed,
                   failAt |-> IF fails THEN "m" ELSE "none",
                   tamper |-> <<>>, run |-> NoRun]
       /\ UNCHANGED <<params, pk, sk, key>>

Dec ==
  \E t \in Tampers :
    LET r == crypto_kem_dec(Old("ss1", KYBER_SSBYTES), Received(ct, t), sk)
    IN /\ last' = [op |-> "dec", res |-> r.res, seed |-> <<>>,
                   failAt |-> "none", tamper |-> t, run |-> r]
       /\ UNCHANGED <<params, pk, sk, ct, ss, enc, key, rng>>

Next == Keypair \/ Enc \/ Dec

Spec == Init /\ [][Next]_vars

\* Key generation alone, in every combination of the key sizes
InitKeys == params \in KeyParamSets /\ Start
NextKeys == Keypair
SpecKeys == InitKeys /\ [][NextKeys]_vars

----------------------------------------------------------------------------
(* Properties *)

\* pk and sk hold a key pair crypto_kem_keypair wrote, and the call that wrote
\* ct and ss encapsulated to that pk
Matching == key # "none" /\ enc.done /\ enc.pk = pk

\* z as the secret key holds it: its last KYBER_SYMBYTES bytes
ZOf(skbuf) == SubSeq(skbuf, Len(skbuf) - KYBER_SYMBYTES + 1, Len(skbuf))

\* A fresh output buffer for a shared secret
FreshSs == Old("ss2", KYBER_SSBYTES)

\* C1: round trip.  Decapsulating the ciphertext that crypto_kem_enc wrote for
\* the public key of the current key pair returns Ok and writes the shared
\* secret crypto_kem_enc wrote, whatever the message seed was (supplied,
\* drawn, or left zero by a failed draw).
C1_RoundTrip ==
  (last.op = "dec" /\ last.tamper = <<>> /\ Matching)
    => (last.res = "Ok" /\ last.run.ss = ss)

C1_Witness ==
  /\ last.op = "dec" /\ last.tamper = <<>> /\ Matching
  /\ enc.seed = <<>> /\ key = "full" /\ last.res = "Ok"

\* C3: tamper sensitivity.  Decapsulating the ciphertext with one bit flipped
\* returns DecodeFail and writes a shared secret that differs from the
\* sender's.
C3_TamperSensitivity ==
  (last.op = "dec" /\ last.tamper # <<>> /\ Matching)
    => (last.res = "DecodeFail" /\ last.run.ss # ss)

C3_Witness ==
  /\ last.op = "dec" /\ last.tamper # <<>> /\ Matching
  /\ last.tamper[2] = "flipLo" /\ last.res = "DecodeFail"

\* C4: implicit rejection.  Whenever crypto_kem_dec returns DecodeFail the
\* whole of ss has been written with KDF(z || H(ct)), z being the last
\* KYBER_SYMBYTES bytes of sk and ct the ciphertext received: a value of the
\* success path's length, a function of (ct, sk) alone, the same when the
\* call is repeated into another buffer, and different for a secret key
\* that differs in z only.
C4_ImplicitRejection ==
  (last.op = "dec" /\ last.res = "DecodeFail") =>
    LET c == last.run.ct
        again == crypto_kem_dec(FreshSs, c, sk)
        otherSk == [i \in 1..Len(sk) |->
                      IF i > Len(sk) - KYBER_SYMBYTES THEN <<Atom("z9"), i>> ELSE sk[i]]
        other == crypto_kem_dec(FreshSs, c, otherSk)
    IN /\ last.run.ss = kdf(ZOf(sk) \o hash_h(c, KYBER_CIPHERTEXTBYTES),
                            2 * KYBER_SYMBYTES)
       /\ Len(last.run.ss) = KYBER_SSBYTES
       /\ Len(last.run.ss) = Len(ss)
       /\ again.res = "DecodeFail" /\ again.ss = last.run.ss
       /\ other.res = "DecodeFail" /\ other.ss # last.run.ss

C4_Witness ==
  /\ last.op = "dec" /\ last.res = "DecodeFail"
  /\ last.tamper # <<>> /\ last.tamper[2] = "flipHi" /\ Matching

\* The shape of a run: its statements in order, with the lengths each was
\* called with (the values in the buffers left out)
Shape(trace) == [i \in DOMAIN trace |-> [op |-> trace[i].op, lens |-> trace[i].lens]]
OpsOf(trace) == [i \in DOMAIN trace |-> trace[i].op]
PrimitiveOps == {"indcpa_dec", "hash_g", "indcpa_enc", "verify", "hash_h", "cmov", "kdf"}
IsPrimitive(op) == op \in PrimitiveOps

\* C5: timing shape.  A run of crypto_kem_dec performs the same primitive
\* operations, in the same order, with the same lengths, as the run on any
\* other received ciphertext (accepted or rejected), up to and including the
\* kdf that writes ss; the runs differ in the status only.
C5_TimingShape ==
  last.op = "dec" =>
    /\ SelectSeq(OpsOf(last.run.trace), IsPrimitive)
         = <<"indcpa_dec", "hash_g", "indcpa_enc", "verify", "hash_h", "cmov", "kdf">>
    /\ \A t \in Tampers :
         LET r == crypto_kem_dec(FreshSs, Received(ct, t), sk)
         IN Shape(r.trace) = Shape(last.run.trace)

C5_Witness ==
  /\ last.op = "dec" /\ last.res = "Ok"
  /\ \E t \in Tampers :
       crypto_kem_dec(FreshSs, Received(ct, t), sk).res = "DecodeFail"

\* C6: determinism under fixed seeds.  A seeded crypto_kem_keypair writes the
\* (pk, sk), and a seeded crypto_kem_enc the (ct, ss), that the same call
\* writes from any other state of the randomness source and into any other
\* buffers.
C6_SeededDeterminism ==
  /\ (last.op = "keypair" /\ last.seed # <<>>) =>
       \A r \in 0..MaxRng :
         LET k == crypto_kem_keypair(Old("pk9", KYBER_PUBLICKEYBYTES),
                                     Old("sk9", KYBER_SECRETKEYBYTES),
                                     r, last.seed, "none")
         IN k.res = last.res /\ k.pk = pk /\ k.sk = sk
  /\ (last.op = "enc" /\ last.seed # <<>>) =>
       \A r \in 0..MaxRng :
         LET e == crypto_kem_enc(Old("ct9", KYBER_CIPHERTEXTBYTES), FreshSs,
                                 pk, r, last.seed, FALSE)
         IN e.res = last.res /\ e.ct = ct /\ e.ss = ss

C6_Witness ==
  /\ last.op = "keypair" /\ last.seed # <<>> /\ rng > 0 /\ enc.done

\* The index sets of the four regions of sk that crypto_kem_keypair writes
SkRegions ==
  << 0 .. (KYBER_INDCPA_SECRETKEYBYTES - 1),
     KYBER_INDCPA_SECRETKEYBYTES ..
       (KYBER_INDCPA_SECRETKEYBYTES + KYBER_INDCPA_PUBLICKEYBYTES - 1),
     (KYBER_SECRETKEYBYTES - 2 * KYBER_SYMBYTES) ..
       (KYBER_SECRETKEYBYTES - KYBER_SYMBYTES - 1),
     (KYBER_SECRETKEYBYTES - KYBER_SYMBYTES) .. (KYBER_SECRETKEYBYTES - 1) >>

\* C7: secret-key layout.  After a successful crypto_kem_keypair sk is
\* cpa_secret || cpa_public || H(cpa_public) || z, of length
\* len(cpa_secret) + len(cpa_public) + 2L; the four regions are pairwise
\* disjoint and cover sk; and crypto_kem_dec reads cpa_public, H(cpa_public)
\* and z back from where they were written; in every parameter set.
C7_SecretKeyLayout ==
  (last.op = "keypair" /\ last.res = "Ok") =>
    LET d == sk[1][1][2]
        z == IF last.seed = <<>>
             THEN RngBytes(rng - 1, KYBER_SYMBYTES)
             ELSE SeedBytes(last.seed[2])
        L == KYBER_SYMBYTES
        r == crypto_kem_dec(FreshSs, ct, sk)
    IN /\ pk = CpaPublic(d)
       /\ sk = CpaSecret(d) \o pk \o hash_h(pk, Len(pk)) \o z
       /\ Len(sk) = Len(CpaSecret(d)) + Len(pk) + 2 * L
       /\ \A i, j \in 1..4 : i # j => SkRegions[i] \cap SkRegions[j] = {}
       /\ UNION {SkRegions[i] : i \in 1..4} = 0..(Len(sk) - 1)
       /\ SubSeq(r.pk, 1, KYBER_INDCPA_PUBLICKEYBYTES) = pk
       /\ SubSeq(r.buf, L + 1, 2 * L) = hash_h(pk, Len(pk))
       /\ r.trace[Len(r.trace) - 1].op = "cmov"
       /\ r.fail = 1 => SubSeq(r.trace[Len(r.trace) - 1].kr, 1, L) = z

C7_Witness ==
  /\ last.op = "keypair" /\ last.res = "Ok" /\ last.seed = <<>>
  /\ KYBER_INDCPA_SECRETKEYBYTES > 1

\* C8: freshness.  Encapsulating to the same public key with two different
\* message seeds gives two different ciphertexts and two different shared
\* secrets, and each ciphertext decapsulates under sk to Ok with its own
\* shared secret.
C8_Freshness ==
  (last.op = "enc" /\ last.seed # <<>> /\ key # "none") =>
    \A m2 \in EncSeeds \ {last.seed} :
      LET e2 == crypto_kem_enc(Old("ct9", KYBER_CIPHERTEXTBYTES), FreshSs,
                               pk, rng, m2, FALSE)
          d1 == crypto_kem_dec(FreshSs, ct, sk)
          d2 == crypto_kem_dec(FreshSs, e2.ct, sk)
      IN /\ e2.ct # ct /\ e2.ss # ss
         /\ d1.res = "Ok" /\ d1.ss = ss
         /\ d2.res = "Ok" /\ d2.ss = e2.ss

C8_Witness ==
  /\ last.op = "enc" /\ last.seed = <<"m1">> /\ key = "full"
  /\ pk = CpaPublic(SeedBytes("d1")) /\ ZOf(sk) = SeedBytes("z1")

\* The message seed m of the last crypto_kem_enc: the seed supplied, the
\* bytes drawn, or the zeroed buffer a failed draw left
SeedOfLastEnc ==
  IF last.seed # <<>> THEN SeedBytes(last.seed[1])
  ELSE IF last.res = "Ok" THEN RngBytes(rng - 1, KYBER_SYMBYTES)
  ELSE Zeros(KYBER_SYMBYTES)

\* C9: encapsulation computes ct = Encrypt_CPA(H(m), pk, coins) and
\* ss = KDF(pre_key || H(ct)) with (pre_key, coins) the halves of
\* G(H(m) || H(pk)): H(m), never m, is what is encrypted and hashed, the
\* coins are G's second half, and the hash in the KDF input is that of the
\* ciphertext returned.
C9_EncTransform ==
  last.op = "enc" =>
    LET L == KYBER_SYMBYTES
        hm == hash_h(SeedOfLastEnc, L)
        kr == hash_g(hm \o hash_h(pk, Len(pk)), 2 * L)
        pre_key == SubSeq(kr, 1, L)
        coins == SubSeq(kr, L + 1, 2 * L)
    IN /\ ct = indcpa_enc(hm, pk, coins)
       /\ ss = kdf(pre_key \o hash_h(ct, Len(ct)), 2 * L)
       /\ ct # indcpa_enc(SeedOfLastEnc, pk, coins)

C9_Witness ==
  /\ last.op = "enc" /\ last.seed = <<>> /\ last.res = "Ok"
  /\ KYBER_CIPHERTEXTBYTES > 1

\* The position of statement op in a run's record (0 when it did not run)
IndexOf(trace, op) ==
  IF \E i \in DOMAIN trace : trace[i].op = op
  THEN CHOOSE i \in DOMAIN trace : trace[i].op = op
  ELSE 0
Count(trace, op) == Cardinality({i \in DOMAIN trace : trace[i].op = op})

\* C10: step order in crypto_kem_dec.  The re-encryption runs while
\* kr[L:2L] still holds the coins G produced; then verify, the overwrite of
\* kr[L:2L] with H(ct), and cmov run in that order, all before kdf; cmov
\* changes kr[0:L] only, and nothing when fail = 0.
C10_DecOrdering ==
  last.op = "dec" =>
    LET run == last.run
        tr == run.trace
        L == KYBER_SYMBYTES
        g == IndexOf(tr, "hash_g")
        e == IndexOf(tr, "indcpa_enc")
        v == IndexOf(tr, "verify")
        h == IndexOf(tr, "hash_h")
        c == IndexOf(tr, "cmov")
        k == IndexOf(tr, "kdf")
        coins == SubSeq(hash_g(run.buf, 2 * L), L + 1, 2 * L)
    IN /\ \A op \in {"hash_g", "indcpa_enc", "verify", "hash_h", "cmov", "kdf"} :
            Count(tr, op) = 1
       /\ 0 < g /\ g < e /\ e < v /\ v < h /\ h < c /\ c < k
       /\ SubSeq(tr[e].kr, L + 1, 2 * L) = coins
       /\ run.cmp = indcpa_enc(run.buf, run.pk, coins)
       /\ SubSeq(tr[h].kr, L + 1, 2 * L) = hash_h(run.ct, Len(run.ct))
       /\ SubSeq(tr[c].kr, L + 1, 2 * L) = SubSeq(tr[h].kr, L + 1, 2 * L)
       /\ run.fail = 0 => tr[c].kr = tr[h].kr
       /\ run.fail # 0 => SubSeq(tr[c].kr, 1, L) = ZOf(run.sk)
       /\ run.ss = kdf(tr[c].kr, 2 * L)

C10_Witness ==
  /\ last.op = "dec" /\ last.run.fail = 1
  /\ SubSeq(last.run.kr, 1, KYBER_SYMBYTES) = ZOf(sk)
  /\ KYBER_SYMBYTES > 1

\* C2: a failure of the randomness source aborts the call before anything is
\* written.  When crypto_kem_keypair returns the source's error pk and sk
\* are as before the call, and when crypto_kem_enc returns it ct and ss are.
C2_RngFailureWritesNothing ==
  [][ (last'.res = "RandomBytesGeneration") =>
        /\ last'.op = "keypair" => (pk' = pk /\ sk' = sk)
        /\ last'.op = "enc" => (ct' = ct /\ ss' = ss) ]_vars

====
